---- MODULE Spec2Model ----
(***************************************************************************)
(* Model of rnplay-cli: the rewritten program src/src/index.js ("index")   *)
(* and the older program src/rnplay-cli.js ("legacy").  One invocation of  *)
(* the program is one run: cli.parse reads the flags, cli.main selects a   *)
(* workflow and runs its promise chain, one action per callback.           *)
(***************************************************************************)
EXTENDS Bags, FiniteSets, Integers, Sequences, TLC

(* ---------------------------- bounds ----------------------------------- *)
MaxEntries == 2      \* entries of the rnplay block of package.json
MaxRuns == 2         \* invocations of the program in one behaviour

(* ------------------------- JavaScript values --------------------------- *)
\* Values are strings; the non-string values the code meets are written
\* with angle brackets.
Undefined == "<undefined>"
Null == "<null>"
True == "<true>"

Truthy(v) == v \notin {Undefined, Null, "", "<false>"}

\* An object is a sequence of <<key, value>> pairs in insertion order.
Get(obj, k) ==
  IF \E i \in 1..Len(obj) : obj[i][1] = k
  THEN LET i == CHOOSE j \in 1..Len(obj) : obj[j][1] = k /\ \A m \in (j+1)..Len(obj) : obj[m][1] # k
       IN obj[i][2]
  ELSE Undefined

Keys(obj) == [i \in 1..Len(obj) |-> obj[i][1]]

\* obj[k] = v : overwrite in place or append as the newest key
Put(obj, k, v) ==
  IF \E i \in 1..Len(obj) : obj[i][1] = k
  THEN [i \in 1..Len(obj) |-> IF obj[i][1] = k THEN <<k, v>> ELSE obj[i]]
  ELSE Append(obj, <<k, v>>)

(* ------------------------------ JSON ----------------------------------- *)
\* File text is a sequence of tokens: punctuation <<"p", c>> and string
\* literals <<"s", chars>>.
P(c) == <<"p", c>>
S(s) == <<"s", s>>

RECURSIVE StringifyPairs(_)
StringifyPairs(obj) ==
  IF obj = << >> THEN << >>
  ELSE IF Head(obj)[2] = Undefined THEN StringifyPairs(Tail(obj))
  ELSE LET rest == StringifyPairs(Tail(obj))
       IN <<S(Head(obj)[1]), P(":"), S(Head(obj)[2])>>
            \o (IF rest = << >> THEN << >> ELSE <<P(",")>> \o rest)

\* JSON.stringify of an object whose values are strings or undefined:
\* keys with an undefined value are left out.
JSONStringify(obj) == <<P("{")>> \o StringifyPairs(obj) \o <<P("}")>>

ParseError == <<<<"<SyntaxError>", "">>>>

RECURSIVE StripWS(_)
StripWS(text) ==
  IF text # << >> /\ text[Len(text)] = P("\n")
  THEN StripWS(SubSeq(text, 1, Len(text) - 1))
  ELSE text

\* members: string ':' string (',' string ':' string)*
RECURSIVE ParseMembers(_, _)
ParseMembers(toks, acc) ==
  IF Len(toks) < 3 THEN ParseError
  ELSE IF toks[1][1] # "s" \/ toks[2] # P(":") \/ toks[3][1] # "s" THEN ParseError
  ELSE LET obj == Put(acc, toks[1][2], toks[3][2])
       IN IF Len(toks) = 3 THEN obj
          ELSE IF toks[4] # P(",") THEN ParseError
          ELSE ParseMembers(SubSeq(toks, 5, Len(toks)), obj)

\* JSON.parse restricted to flat objects of strings; ParseError otherwise.
JSONParse(text) ==
  LET t == StripWS(text)
  IN IF Len(t) < 2 \/ t[1] # P("{") \/ t[Len(t)] # P("}") THEN ParseError
     ELSE IF Len(t) = 2 THEN << >>
     ELSE ParseMembers(SubSeq(t, 2, Len(t) - 1), << >>)

(* --------------------------- config store ------------------------------ *)
Absent == <<<<"<ENOENT>", "">>>>           \* the file does not exist
Corrupt == <<P("{"), S("token")>>          \* a truncated file

MissingMsg == "Missing or corrupt config file, please run rnplay -a"
InvalidMsg == "Invalid config, please run rnplay -a first"

Ok(v) == [ok |-> TRUE, value |-> v, message |-> ""]
Err(m) == [ok |-> FALSE, value |-> << >>, message |-> m]

\* readConfig: read the file, JSON.parse it; any failure is replaced by
\* the one "missing or corrupt" error.
readConfig(file) ==
  IF file = Absent THEN Err(MissingMsg)
  ELSE IF JSONParse(file) = ParseError THEN Err(MissingMsg)
  ELSE Ok(JSONParse(file))

\* saveConfig that writes only the first field
saveConfigFirstField(configData) == JSONStringify(SubSeq(configData, 1, 1)) \o <<P("\n")>>

\* saveConfig: the text written to the file
saveConfig(configData) == JSONStringify(configData) \o <<P("\n")>>

\* checkConfig that tests the email only
checkConfigEmailOnly(conf) ==
  IF ~Truthy(Get(conf, "email")) THEN Err(InvalidMsg) ELSE Ok(conf)

checkConfig(conf) ==
  IF ~Truthy(Get(conf, "email")) \/ ~Truthy(Get(conf, "token"))
  THEN Err(InvalidMsg)
  ELSE Ok(conf)

\* the local store of index.js: the same contract, in the working directory
readLocalConfig(file) == readConfig(file)
saveLocalConfig(configData) == JSONStringify(configData) \o <<P("\n")>>

\* the package name declared by the manifest, if there is one
maybeUsePackageName(package) == IF package.exists THEN package.name ELSE Undefined

\* getConfig without the validation step
getConfigUnchecked(file) == readConfig(file)

\* getConfig = readConfig().then(checkConfig)
getConfig(file) ==
  IF readConfig(file).ok THEN checkConfig(readConfig(file).value) ELSE readConfig(file)

(* ----------------------------- constants -------------------------------- *)
\* index.js:36-38.  RNPLAY_ENV is read from the environment once.
PREFIX(rnplayEnv) == IF Truthy(rnplayEnv) THEN <<rnplayEnv, ".">> ELSE << >>
RNPLAY_APP_URL_NoPrefix(rnplayEnv) == <<"https://", "rnplay.org/apps/">>
RNPLAY_APP_URL(rnplayEnv) == <<"https://">> \o PREFIX(rnplayEnv) \o <<"rnplay.org/apps/">>
RN_PLAY_APP_URL == <<"https://rnplay.org/apps/">>
tmp == "/tmp"

CreateFirstMsg == "You have to create an application using rnplay --create first"
OoopsMsg == "Ooops, there has been an error: \n"
IssueHint == "If you are sure that you did nothing wrong, please file an issue at the rnplay-cli repo!"
UsageText == "usage"
NoRnplayMsg == "No rnplay config found. Make sure you have rnplay config in your package.json"
ReferenceErrorMsg == "remoteName is not defined"

\* errors of the collaborators
PromptErrorMsg == "prompt failed"
WriteErrorMsg == "EACCES: write failed"
RemoteApiErrorMsg == "RemoteApiError"
ShellErrorMsg == "Command failed"
PackageMissingMsg == "Cannot find module package.json"

(* ------------------------------ inputs --------------------------------- *)
TokenInputs == {"tk", ""}
EmailInputs == {"em"}
NameInputs == {"myapp"}
UrlTokens == {"u1", "u2"}
EnvValues == {Undefined, "staging"}

ValidConfig == <<<<"token", "tk">>, <<"email", "em">>>>

GlobalFiles(p) ==
  {Absent, Corrupt, saveConfig(ValidConfig), saveConfig(<<<<"token", "">>, <<"email", "em">>>>)}
    \cup (IF p = "legacy" THEN {saveConfig(Put(ValidConfig, "urlToken", "u0"))} ELSE {})

LocalFiles(p) ==
  IF p = "legacy" THEN {Absent}
  ELSE {Absent, JSONStringify(<<<<"urlToken", "u0">>>>), JSONStringify(<< >>)}

Project(i) == "app" \o ToString(i)
Source(i) == "./packages/app" \o ToString(i)
Mapping(n) == [i \in 1..n |-> <<Project(i), Source(i)>>]

NoPackage == [exists |-> FALSE, name |-> Undefined, hasRnplay |-> FALSE, rnplay |-> << >>]
Packages(p) ==
  {NoPackage,
   [exists |-> TRUE, name |-> "demo", hasRnplay |-> FALSE, rnplay |-> << >>],
   [exists |-> TRUE, name |-> Undefined, hasRnplay |-> FALSE, rnplay |-> << >>]}
  \cup (IF p = "legacy" THEN {}
        ELSE {[exists |-> TRUE, name |-> Undefined, hasRnplay |-> TRUE, rnplay |-> Mapping(n)] :
                n \in 0..MaxEntries})

(* ------------------------------ state ---------------------------------- *)
VARIABLES
  prog,        \* "index" (src/src/index.js) or "legacy" (src/rnplay-cli.js)
  rnplayEnv,   \* process.env.RNPLAY_ENV
  globalFile,  \* text of ~/.rnplay
  localFile,   \* text of the local config file
  pkg,         \* package.json of the working directory
  runs,        \* invocations so far
  options,     \* the options object cli.parse produced
  proc,        \* "idle", "main", "running", "usage", "exited", "fatal", "crashed"
  action,      \* the workflow selected from ACTION_MAP, "none" before
  pc,          \* stage of the workflow's promise chain
  config,      \* the closure variable config of the workflow
  val,         \* the value the chain passes to the next callback
  err,         \* message of the rejection reason
  bpc,         \* split: stage of each entry's chain
  bconfig,     \* split: config of getAddRemoteCommand, per entry
  bval,        \* split: value passed along each entry's chain
  berr,        \* split: rejection reason of each entry's chain
  shell,       \* split: "none", "running" or "finished" child process per entry
  execd,       \* bag of the shell commands issued in this run
  apiCalls,    \* bag of the requests postCreateRepo sent in this run
  opened,      \* sequence of the urls given to opener in this run
  printed,     \* set of the messages printed through cli in this run
  handled,     \* messages of the errors the top-level catch received
  uncaught,    \* messages of the errors thrown out of a .done()
  resolved,    \* split: indexes whose completion callback called resolve
  saved        \* the last object given to saveConfig, << >> before

vars == <<prog, rnplayEnv, globalFile, localFile, pkg, runs, options, proc, action,
          pc, config, val, err, bpc, bconfig, bval, berr, shell, execd, apiCalls,
          opened, printed, handled, uncaught, resolved, saved>>

envVars == <<prog, rnplayEnv, pkg>>
fileVars == <<globalFile, localFile, saved>>
splitVars == <<bpc, bconfig, bval, berr, shell, resolved>>
logVars == <<execd, apiCalls, opened, printed, handled, uncaught>>

Entries == 1..Len(pkg.rnplay)

(* -------------------------- action selection --------------------------- *)
\* the options of cli.parse, in declaration order
OptionKeys(p) ==
  IF p = "legacy" THEN <<"authenticate", "create", "open">>
  ELSE <<"authenticate", "create", "open", "split">>

ACTION_MAP(p) ==
  IF p = "legacy"
  THEN <<<<"authenticate", "createConfig">>, <<"create", "createGitRepo">>,
         <<"open", "openAppInBrowser">>>>
  ELSE <<<<"authenticate", "createConfig">>, <<"create", "createGitRepo">>,
         <<"open", "openAppInBrowser">>, <<"split", "splitByConfig">>>>

\* Object.keys(options).reduce((prev, key) => prev ? prev : options[key] && key, null)
RECURSIVE reduceOptions(_, _, _)
reduceOptions(opts, keys, prev) ==
  IF keys = << >> THEN prev
  ELSE reduceOptions(opts, Tail(keys),
         IF Truthy(prev) THEN prev
         ELSE IF Truthy(Get(opts, Head(keys))) THEN Head(keys)
         ELSE Get(opts, Head(keys)))

\* the reduce without the prev ? prev test: the last truthy key wins
RECURSIVE reduceLast(_, _, _)
reduceLast(opts, keys, prev) ==
  IF keys = << >> THEN prev
  ELSE reduceLast(opts, Tail(keys),
         IF Truthy(Get(opts, Head(keys))) THEN Head(keys) ELSE prev)

getLastTrueOption(opts) == reduceLast(opts, Keys(opts), Null)

getFirstTrueOption(opts) == reduceOptions(opts, Keys(opts), Null)

OptionSets(p) ==
  {[i \in 1..Len(OptionKeys(p)) |-> <<OptionKeys(p)[i], f[i]>>] :
     f \in [1..Len(OptionKeys(p)) -> {True, Null}]}

(* ------------------------------ commands ------------------------------- *)
NoUrl == << >>
Cmd(cd, op, src, dst, remoteName, url) ==
  [cd |-> cd, op |-> op, src |-> src, dst |-> dst, remoteName |-> remoteName, url |-> url]

\* formatCommand that builds the url from the credentials only
formatCommandNoUrlToken(urlToken, conf) ==
  [cd |-> << >>, op |-> "git remote add", src |-> "", dst |-> << >>, remoteName |-> "rnplay",
   url |-> <<"https://", Get(conf, "token"), ":@git.rnplay.org/", Get(conf, "email"), ".git">>]

\* index.js formatCommand: git remote add rnplay https://<token>:@git.rnplay.org/<urlToken>.git
formatCommand(urlToken, conf) ==
  Cmd(<< >>, "git remote add", "", << >>, "rnplay",
      <<"https://", Get(conf, "token"), ":@git.rnplay.org/", urlToken, ".git">>)

\* rnplay-cli.js:117-119
legacyCommand(urlToken, conf) ==
  Cmd(<< >>, "git remote add", "", << >>, "rnplay",
      <<"https://", Get(conf, "token"), ":@git.rnplay.org:jsierles/", urlToken, ".git">>)

\* path.join(tmp, project)
target(project) == <<tmp, project>>

\* cp -r ${config[project]} ${target}
copyCommand(source, project) == Cmd(<< >>, "cp -r", source, target(project), "", NoUrl)

\* the init command run in the temporary directory itself
initCommandInTmp(project, cmd) ==
  [cd |-> <<tmp>>, op |-> "git init && " \o cmd.op, src |-> "", dst |-> << >>,
   remoteName |-> cmd.remoteName, url |-> cmd.url]

\* cd ${target} && git init && ${cmd}
initCommand(project, cmd) ==
  Cmd(target(project), "git init && " \o cmd.op, "", << >>, cmd.remoteName, cmd.url)

\* the request postCreateRepo sends
postCreateRepo(name, conf) ==
  [body |-> <<P("{"), S("app"), P(":"), P("{"), S("name"), P(":"), S(name), P(","),
             S("uses_git"), P(":"), <<"n", "1">>, P("}"), P("}")>>,
   name |-> name,
   email |-> Get(conf, "email"),
   token |-> Get(conf, "token")]

\* what cli.info returns to its caller: cli.status has no return value
cliInfo == Undefined

(* ------------------------------- Init ---------------------------------- *)
Init ==
  /\ prog \in {"index", "legacy"}
  /\ rnplayEnv \in (IF prog = "legacy" THEN {Undefined} ELSE EnvValues)
  /\ globalFile \in GlobalFiles(prog)
  /\ localFile \in LocalFiles(prog)
  /\ pkg \in Packages(prog)
  /\ runs = 0
  /\ options = << >>
  /\ proc = "idle"
  /\ action = "none"
  /\ pc = "none"
  /\ config = << >>
  /\ val = Undefined
  /\ err = ""
  /\ bpc = [i \in Entries |-> "idle"]
  /\ bconfig = [i \in Entries |-> << >>]
  /\ bval = [i \in Entries |-> Undefined]
  /\ berr = [i \in Entries |-> ""]
  /\ shell = [i \in Entries |-> "none"]
  /\ execd = EmptyBag
  /\ apiCalls = EmptyBag
  /\ opened = << >>
  /\ printed = {}
  /\ handled = {}
  /\ uncaught = {}
  /\ resolved = {}
  /\ saved = << >>

Terminated == proc \in {"usage", "exited", "fatal", "crashed"}

\* The program is invoked: cli.parse builds the options object.
Launch ==
  /\ proc = "idle" \/ Terminated
  /\ runs < MaxRuns
  /\ runs' = runs + 1
  /\ options' \in OptionSets(prog)
  /\ proc' = "main"
  /\ action' = "none"
  /\ pc' = "none"
  /\ config' = << >>
  /\ val' = Undefined
  /\ err' = ""
  /\ bpc' = [i \in Entries |-> "idle"]
  /\ bconfig' = [i \in Entries |-> << >>]
  /\ bval' = [i \in Entries |-> Undefined]
  /\ berr' = [i \in Entries |-> ""]
  /\ shell' = [i \in Entries |-> "none"]
  /\ execd' = EmptyBag
  /\ apiCalls' = EmptyBag
  /\ opened' = << >>
  /\ printed' = {}
  /\ handled' = {}
  /\ uncaught' = {}
  /\ resolved' = {}
  /\ UNCHANGED <<envVars, fileVars>>

Say(level, text) == <<level>> \o text

FirstStage(a) ==
  CASE a = "createConfig" -> "readToken"
    [] a = "createGitRepo" -> "getConfig"
    [] a = "openAppInBrowser" -> "readConfig"
    [] a = "splitByConfig" -> "pending"

\* splitByConfig that resolves at once when there is no entry to wait for
splitByConfigResolveEmpty ==
  IF ~pkg.exists
  THEN /\ pc' = "rejected"
       /\ err' = PackageMissingMsg
       /\ proc' = "running"
       /\ UNCHANGED <<bpc, execd, printed>>
  ELSE IF ~pkg.hasRnplay
  THEN /\ printed' = printed \cup {Say("error", <<NoRnplayMsg>>)}
       /\ proc' = "fatal"
       /\ pc' = "pending"
       /\ UNCHANGED <<err, bpc, execd>>
  ELSE /\ pc' = IF Entries = {} THEN "fulfilled" ELSE "pending"
       /\ proc' = "running"
       /\ bpc' = [i \in Entries |-> "cp"]
       /\ execd' = BagOfAll(LAMBDA i : copyCommand(pkg.rnplay[i][2], pkg.rnplay[i][1]),
                            SetToBag(Entries))
       /\ printed' = printed \cup
            {Say("info", <<"Adding git remote for ", pkg.rnplay[i][1]>>) : i \in Entries}
       /\ UNCHANGED err

\* The executor of splitByConfig's promise: it runs inside the call.
splitByConfig ==
  IF ~pkg.exists
  THEN \* getPackageConfig throws: the promise is rejected
       /\ pc' = "rejected"
       /\ err' = PackageMissingMsg
       /\ proc' = "running"
       /\ UNCHANGED <<bpc, execd, printed>>
  ELSE IF ~pkg.hasRnplay
  THEN \* processRNPlayConfig: cli.fatal prints and exits the process
       /\ printed' = printed \cup {Say("error", <<NoRnplayMsg>>)}
       /\ proc' = "fatal"
       /\ pc' = "pending"
       /\ UNCHANGED <<err, bpc, execd>>
  ELSE \* folders.forEach: every entry's cp is started here
       /\ pc' = "pending"
       /\ proc' = "running"
       /\ bpc' = [i \in Entries |-> "cp"]
       /\ execd' = BagOfAll(LAMBDA i : copyCommand(pkg.rnplay[i][2], pkg.rnplay[i][1]),
                            SetToBag(Entries))
       /\ printed' = printed \cup
            {Say("info", <<"Adding git remote for ", pkg.rnplay[i][1]>>) : i \in Entries}
       /\ UNCHANGED err

\* The callback of cli.main.
Main ==
  /\ proc = "main"
  /\ LET a == Get(ACTION_MAP(prog), getFirstTrueOption(options))
     IN IF a = Undefined
        THEN /\ printed' = printed \cup {Say("usage", <<UsageText>>)}
             /\ proc' = "usage"
             /\ UNCHANGED <<action, pc, err, bpc, execd>>
        ELSE /\ action' = a
             /\ IF a = "splitByConfig"
                THEN splitByConfig
                ELSE /\ pc' = FirstStage(a)
                     /\ proc' = "running"
                     /\ UNCHANGED <<err, bpc, execd, printed>>
  /\ UNCHANGED <<envVars, fileVars, runs, options, config, val, bconfig, bval, berr,
                 shell, apiCalls, opened, handled, uncaught, resolved>>

Running(a, stage) == proc = "running" /\ action = a /\ pc = stage

\* frame of a step of the main chain that touches no file and no log
ChainFrame == <<envVars, runs, options, proc, action, splitVars>>

(* --------------------------- authenticate ------------------------------ *)
\* readTokenFromCLI resolves with the typed token, or the prompt fails
ReadToken ==
  /\ Running("createConfig", "readToken")
  /\ \/ \E t \in TokenInputs : /\ val' = t /\ pc' = "readEmail" /\ err' = err
     \/ /\ pc' = "rejected" /\ err' = PromptErrorMsg /\ val' = val
  /\ UNCHANGED <<ChainFrame, fileVars, logVars, config>>

\* readEmailFromCLI().then((email) => [token, email])
ReadEmail ==
  /\ Running("createConfig", "readEmail")
  /\ \/ \E e \in EmailInputs :
          /\ config' = <<<<"token", val>>, <<"email", e>>>>
          /\ pc' = "saveConfig" /\ err' = err
     \/ /\ pc' = "rejected" /\ err' = PromptErrorMsg /\ config' = config
  /\ UNCHANGED <<ChainFrame, fileVars, logVars, val>>

\* .spread((token, email) => saveConfig({ token, email }))
SaveConfig ==
  /\ Running("createConfig", "saveConfig")
  /\ \/ /\ globalFile' = saveConfig(config)
        /\ saved' = config
        /\ pc' = "saveConfigThen" /\ err' = err
     \/ /\ pc' = "rejected" /\ err' = WriteErrorMsg
        /\ UNCHANGED <<globalFile, saved>>
  /\ UNCHANGED <<ChainFrame, localFile, logVars, config, val>>

\* .then(() => cli.ok('Saved config to ~/.rnplay'))
SaveConfigThen ==
  /\ Running("createConfig", "saveConfigThen")
  /\ printed' = printed \cup {Say("ok", <<"Saved config to ~/.rnplay">>)}
  /\ pc' = "fulfilled"
  /\ UNCHANGED <<ChainFrame, fileVars, config, val, err, execd, apiCalls, opened,
                 handled, uncaught>>

(* ----------------------------- top level ------------------------------- *)
\* .catch((e) => { cli.error('Ooops ...' + e.message); cli.info(...) })
Catch ==
  /\ proc = "running" /\ pc = "rejected"
  /\ printed' = printed \cup {Say("error", <<OoopsMsg, err>>), Say("info", <<IssueHint>>)}
  /\ handled' = handled \cup {err}
  /\ pc' = "caught"
  /\ UNCHANGED <<ChainFrame, fileVars, config, val, err, execd, apiCalls, opened, uncaught>>

\* .finally(() => process.exit())
Finally ==
  /\ proc = "running" /\ pc \in {"fulfilled", "caught"}
  /\ proc' = "exited"
  /\ UNCHANGED <<envVars, fileVars, runs, options, action, pc, config, val, err,
                 splitVars, logVars>>

(* ------------------------------- create -------------------------------- *)
\* getConfig().then((c) => config = c); rnplay-cli.js:97-103 does the same inline
GetConfig ==
  /\ Running("createGitRepo", "getConfig")
  /\ LET r == getConfig(globalFile)
     IN IF r.ok
        THEN /\ config' = r.value /\ pc' = "maybeUsePackageName" /\ err' = err
        ELSE /\ pc' = "rejected" /\ err' = r.message /\ config' = config
  /\ UNCHANGED <<ChainFrame, fileVars, logVars, val>>

\* .then(maybeUsePackageName)
MaybeUsePackageName ==
  /\ Running("createGitRepo", "maybeUsePackageName")
  /\ val' = maybeUsePackageName(pkg)
  /\ pc' = "resolveName"
  /\ UNCHANGED <<ChainFrame, fileVars, logVars, config, err>>

\* .then((name) => name ? name : readRepoNameFromCLI())
ResolveName ==
  /\ Running("createGitRepo", "resolveName")
  /\ IF Truthy(val)
     THEN /\ pc' = "makeURLToken" /\ UNCHANGED <<val, err>>
     ELSE \/ \E n \in NameInputs : /\ val' = n /\ pc' = "makeURLToken" /\ err' = err
          \/ /\ pc' = "rejected" /\ err' = PromptErrorMsg /\ val' = val
  /\ UNCHANGED <<ChainFrame, fileVars, logVars, config>>

\* .then((name) => makeURLToken(name, config)): the request is sent, and the
\* response carries a url_token (possibly none) or the request fails
MakeURLToken ==
  /\ Running("createGitRepo", "makeURLToken")
  /\ apiCalls' = apiCalls (+) SetToBag({postCreateRepo(val, config)})
  /\ printed' = printed \cup {Say("info", <<"Setting up new git repo">>)}
  /\ \/ \E u \in UrlTokens \cup {Undefined} :
          /\ val' = u /\ pc' = "saveLocalConfig" /\ err' = err
     \/ /\ pc' = "rejected" /\ err' = RemoteApiErrorMsg /\ val' = val
  /\ UNCHANGED <<ChainFrame, fileVars, config, execd, opened, handled, uncaught>>

\* SaveLocalConfig that stores the token under the key of the API response
SaveLocalConfigWrongKey ==
  /\ Running("createGitRepo", "saveLocalConfig")
  /\ IF prog = "legacy"
     THEN /\ config' = Put(config, "url_token", val)
          /\ \/ /\ globalFile' = saveConfig(config')
                /\ saved' = config'
                /\ pc' = "exec" /\ err' = err
             \/ /\ pc' = "rejected" /\ err' = WriteErrorMsg
                /\ UNCHANGED <<globalFile, saved>>
          /\ UNCHANGED localFile
     ELSE /\ \/ /\ localFile' = saveLocalConfig(<<<<"url_token", val>>>>)
                /\ pc' = "exec" /\ err' = err
             \/ /\ pc' = "rejected" /\ err' = WriteErrorMsg
                /\ UNCHANGED localFile
          /\ UNCHANGED <<config, globalFile, saved>>
  /\ UNCHANGED <<ChainFrame, logVars, val>>

\* index.js:108-111 saveLocalConfig({ urlToken });
\* rnplay-cli.js:110-114 config.urlToken = urlToken; saveConfig(config)
SaveLocalConfig ==
  /\ Running("createGitRepo", "saveLocalConfig")
  /\ IF prog = "legacy"
     THEN /\ config' = Put(config, "urlToken", val)
          /\ \/ /\ globalFile' = saveConfig(config')
                /\ saved' = config'
                /\ pc' = "exec" /\ err' = err
             \/ /\ pc' = "rejected" /\ err' = WriteErrorMsg
                /\ UNCHANGED <<globalFile, saved>>
          /\ UNCHANGED localFile
     ELSE /\ \/ /\ localFile' = saveLocalConfig(<<<<"urlToken", val>>>>)
                /\ pc' = "exec" /\ err' = err
             \/ /\ pc' = "rejected" /\ err' = WriteErrorMsg
                /\ UNCHANGED localFile
          /\ UNCHANGED <<config, globalFile, saved>>
  /\ UNCHANGED <<ChainFrame, logVars, val>>

\* ExecRemoteAdd that notes a failed command and carries on
ExecRemoteAddCarryOn ==
  /\ Running("createGitRepo", "exec")
  /\ printed' = printed \cup {Say("info", <<"Adding git remote">>)}
  /\ execd' = execd (+) SetToBag({IF prog = "legacy" THEN legacyCommand(val, config)
                                  ELSE formatCommand(val, config)})
  /\ \/ /\ pc' = "execThen" /\ err' = err
     \/ /\ pc' = "execThen" /\ err' = ShellErrorMsg
  /\ UNCHANGED <<ChainFrame, fileVars, config, val, apiCalls, opened, handled, uncaught>>

\* cli.info('Adding git remote'); execAsync(cmd): the command exits zero or not
ExecRemoteAdd ==
  /\ Running("createGitRepo", "exec")
  /\ printed' = printed \cup {Say("info", <<"Adding git remote">>)}
  /\ execd' = execd (+) SetToBag({IF prog = "legacy" THEN legacyCommand(val, config)
                                  ELSE formatCommand(val, config)})
  /\ \/ /\ pc' = "execThen" /\ err' = err
     \/ /\ pc' = "rejected" /\ err' = ShellErrorMsg
  /\ UNCHANGED <<ChainFrame, fileVars, config, val, apiCalls, opened, handled, uncaught>>

\* index.js:118 .then(() => [remoteName, url]): neither name is in scope;
\* rnplay-cli.js:121-123 returns [remoteName, url, urlToken]
ExecThen ==
  /\ Running("createGitRepo", "execThen")
  /\ IF prog = "legacy"
     THEN /\ pc' = "report" /\ err' = err
     ELSE /\ pc' = "rejected" /\ err' = ReferenceErrorMsg
  /\ UNCHANGED <<ChainFrame, fileVars, logVars, config, val>>

\* .spread((remoteName, url) => { cli.ok(...); cli.ok(...); cli.ok(...) })
Report ==
  /\ Running("createGitRepo", "report")
  /\ printed' = printed \cup
       {Say("ok", <<"Added remote with name ", "rnplay", " and url: ">> \o
                    (IF prog = "legacy" THEN legacyCommand(val, config).url
                     ELSE formatCommand(val, config).url)),
        Say("ok", <<"All done! Use git push rnplay master to push your application.">>),
        Say("ok", <<"You can use rnplay --open to open this application on rnplay.org">>)}
  /\ pc' = "fulfilled"
  /\ UNCHANGED <<ChainFrame, fileVars, config, val, err, execd, apiCalls, opened,
                 handled, uncaught>>

(* -------------------------------- open --------------------------------- *)
\* index.js readLocalConfig(); rnplay-cli.js readConfig()
ReadStoredConfig ==
  /\ Running("openAppInBrowser", "readConfig")
  /\ LET r == IF prog = "legacy" THEN readConfig(globalFile) ELSE readLocalConfig(localFile)
     IN IF r.ok
        THEN /\ config' = r.value /\ pc' = "openThen" /\ err' = err
        ELSE /\ pc' = "rejected" /\ err' = r.message /\ config' = config
  /\ UNCHANGED <<ChainFrame, fileVars, logVars, val>>

\* OpenThen without the return after cli.error
OpenThenNoReturn ==
  /\ Running("openAppInBrowser", "openThen")
  /\ printed' = IF ~Truthy(Get(config, "urlToken"))
                THEN printed \cup {Say("error", <<CreateFirstMsg>>)} ELSE printed
  /\ opened' = Append(opened,
       (IF prog = "legacy" THEN RN_PLAY_APP_URL ELSE RNPLAY_APP_URL(rnplayEnv))
         \o <<Get(config, "urlToken")>>)
  /\ pc' = "fulfilled"
  /\ UNCHANGED <<ChainFrame, fileVars, config, val, err, execd, apiCalls, handled, uncaught>>

\* .then(({ urlToken }) => { if (!urlToken) return cli.error(...); opener(url) })
OpenThen ==
  /\ Running("openAppInBrowser", "openThen")
  /\ IF ~Truthy(Get(config, "urlToken"))
     THEN /\ printed' = printed \cup {Say("error", <<CreateFirstMsg>>)}
          /\ opened' = opened
     ELSE /\ opened' = Append(opened,
               (IF prog = "legacy" THEN RN_PLAY_APP_URL ELSE RNPLAY_APP_URL(rnplayEnv))
                 \o <<Get(config, "urlToken")>>)
          /\ printed' = printed
  /\ pc' = "fulfilled"
  /\ UNCHANGED <<ChainFrame, fileVars, config, val, err, execd, apiCalls, handled, uncaught>>

(* -------------------------------- split -------------------------------- *)
Branch(i, stage) == proc = "running" /\ action = "splitByConfig" /\ bpc[i] = stage

BranchFrame == <<envVars, fileVars, runs, options, action, pc, config, val, err>>

\* execAsync(`cp -r ...`) settles: the copy exits zero or not
CopyDone(i) ==
  /\ Branch(i, "cp")
  /\ \/ /\ bpc' = [bpc EXCEPT ![i] = "getConfig"] /\ berr' = berr
     \/ /\ bpc' = [bpc EXCEPT ![i] = "rejected"]
        /\ berr' = [berr EXCEPT ![i] = ShellErrorMsg]
  /\ UNCHANGED <<BranchFrame, proc, bconfig, bval, shell, resolved, logVars>>

\* getAddRemoteCommand: getConfig().then((c) => config = c)
BranchGetConfig(i) ==
  /\ Branch(i, "getConfig")
  /\ LET r == getConfig(globalFile)
     IN IF r.ok
        THEN /\ bconfig' = [bconfig EXCEPT ![i] = r.value]
             /\ bpc' = [bpc EXCEPT ![i] = "makeURLToken"] /\ berr' = berr
        ELSE /\ bpc' = [bpc EXCEPT ![i] = "rejected"]
             /\ berr' = [berr EXCEPT ![i] = r.message] /\ bconfig' = bconfig
  /\ UNCHANGED <<BranchFrame, proc, bval, shell, resolved, logVars>>

\* .then(() => makeURLToken(name, config))
BranchMakeURLToken(i) ==
  /\ Branch(i, "makeURLToken")
  /\ apiCalls' = apiCalls (+) SetToBag({postCreateRepo(pkg.rnplay[i][1], bconfig[i])})
  /\ printed' = printed \cup {Say("info", <<"Setting up new git repo">>)}
  /\ \/ \E u \in UrlTokens \cup {Undefined} :
          /\ bval' = [bval EXCEPT ![i] = u]
          /\ bpc' = [bpc EXCEPT ![i] = "exec"] /\ berr' = berr
     \/ /\ bpc' = [bpc EXCEPT ![i] = "rejected"]
        /\ berr' = [berr EXCEPT ![i] = RemoteApiErrorMsg] /\ bval' = bval
  /\ UNCHANGED <<BranchFrame, proc, bconfig, shell, resolved, execd, opened, handled, uncaught>>

\* .then((token) => formatCommand(token, config))
\*   .then((cmd) => exec(`cd ${target} && git init && ${cmd}`)): the child
\* process is started and the chain goes on without waiting for it
BranchExec(i) ==
  /\ Branch(i, "exec")
  /\ execd' = execd (+) SetToBag({initCommand(pkg.rnplay[i][1],
                                              formatCommand(bval[i], bconfig[i]))})
  /\ shell' = [shell EXCEPT ![i] = "running"]
  /\ bpc' = [bpc EXCEPT ![i] = "settled"]
  /\ UNCHANGED <<BranchFrame, proc, bconfig, bval, berr, resolved, apiCalls, opened,
                 printed, handled, uncaught>>

\* .done(() => index === folders.length - 1 ?
\*   cli.info(`Done setup for ${target}`) && resolve() :
\*   cli.info(index + ' of ' + folders.length - 1))
BranchDone(i) ==
  /\ Branch(i, "settled")
  /\ bpc' = [bpc EXCEPT ![i] = "done"]
  /\ IF i = Len(pkg.rnplay)
     THEN /\ printed' = printed \cup {Say("info", <<"Done setup for ">> \o target(pkg.rnplay[i][1]))}
          /\ IF Truthy(cliInfo)
             THEN /\ resolved' = resolved \cup {i}
                  /\ pc' = IF pc = "pending" THEN "fulfilled" ELSE pc
             ELSE UNCHANGED <<resolved, pc>>
     ELSE /\ printed' = printed \cup {Say("info", <<"NaN">>)}
          /\ UNCHANGED <<resolved, pc>>
  /\ UNCHANGED <<envVars, fileVars, runs, options, action, config, val, err, proc,
                 bconfig, bval, berr, shell, execd, apiCalls, opened, handled, uncaught>>

\* .done() on a rejected chain: the reason is thrown out of the promise
\* library and ends the process; the top-level catch does not see it
BranchThrow(i) ==
  /\ Branch(i, "rejected")
  /\ bpc' = [bpc EXCEPT ![i] = "thrown"]
  /\ uncaught' = uncaught \cup {berr[i]}
  /\ proc' = "crashed"
  /\ UNCHANGED <<BranchFrame, bconfig, bval, berr, shell, resolved, execd, apiCalls,
                 opened, printed, handled>>

\* the child process of an entry's exec ends; nothing listens to it
ShellFinish(i) ==
  /\ shell[i] = "running"
  /\ shell' = [shell EXCEPT ![i] = "finished"]
  /\ UNCHANGED <<BranchFrame, proc, bpc, bconfig, bval, berr, resolved, logVars>>

(* ------------------------------- Next ---------------------------------- *)
Next ==
  \/ Launch
  \/ Main
  \/ ReadToken
  \/ ReadEmail
  \/ SaveConfig
  \/ SaveConfigThen
  \/ GetConfig
  \/ MaybeUsePackageName
  \/ ResolveName
  \/ MakeURLToken
  \/ SaveLocalConfig
  \/ ExecRemoteAdd
  \/ ExecThen
  \/ Report
  \/ ReadStoredConfig
  \/ OpenThen
  \/ \E i \in Entries : CopyDone(i)
  \/ \E i \in Entries : BranchGetConfig(i)
  \/ \E i \in Entries : BranchMakeURLToken(i)
  \/ \E i \in Entries : BranchExec(i)
  \/ \E i \in Entries : BranchDone(i)
  \/ \E i \in Entries : BranchThrow(i)
  \/ \E i \in Entries : ShellFinish(i)
  \/ Catch
  \/ Finally

Spec == Init /\ [][Next]_vars

\* The top-level chain and every split branch are scheduled by the event
\* loop: a callback that is ready runs.  Launch is the user's choice.
Step ==
  \/ Main \/ ReadToken \/ ReadEmail \/ SaveConfig \/ SaveConfigThen
  \/ GetConfig \/ MaybeUsePackageName \/ ResolveName \/ MakeURLToken
  \/ SaveLocalConfig \/ ExecRemoteAdd \/ ExecThen \/ Report
  \/ ReadStoredConfig \/ OpenThen \/ Catch \/ Finally
  \/ \E i \in Entries : CopyDone(i) \/ BranchGetConfig(i) \/ BranchMakeURLToken(i)
                        \/ BranchExec(i) \/ BranchDone(i) \/ BranchThrow(i)
                        \/ ShellFinish(i)

FairSpec == Init /\ [][Next]_vars /\ WF_vars(Step)

(* ============================== claims ================================= *)
Started == proc \notin {"idle", "main"}

Stages(a) ==
  CASE a = "none" -> {"none"}
    [] a = "createConfig" ->
         {"readToken", "readEmail", "saveConfig", "saveConfigThen",
          "fulfilled", "rejected", "caught"}
    [] a = "createGitRepo" ->
         {"getConfig", "maybeUsePackageName", "resolveName", "makeURLToken",
          "saveLocalConfig", "exec", "execThen", "report",
          "fulfilled", "rejected", "caught"}
    [] a = "openAppInBrowser" ->
         {"readConfig", "openThen", "fulfilled", "rejected", "caught"}
    [] a = "splitByConfig" -> {"pending", "fulfilled", "rejected", "caught"}

TruthyOptions == {i \in 1..Len(options) : Truthy(options[i][2])}
FirstTruthy == CHOOSE i \in TruthyOptions : \A j \in TruthyOptions : i <= j

\* C9: action selection.  For every combination of the flags,
\* getFirstTrueOption returns the first key, in option-key order, whose value
\* is truthy, and the one workflow mapped to that key is the only one that
\* runs; with no truthy flag no workflow runs and only the usage is printed.
C9_FirstTruthyOptionWins ==
  Started =>
    IF TruthyOptions = {}
    THEN /\ action = "none" /\ pc = "none" /\ proc = "usage"
         /\ printed = {<<"usage", UsageText>>}
         /\ execd = EmptyBag /\ apiCalls = EmptyBag /\ opened = << >>
    ELSE /\ getFirstTrueOption(options) = options[FirstTruthy][1]
         /\ action = Get(ACTION_MAP(prog), options[FirstTruthy][1])
         /\ pc \in Stages(action)
         /\ (action # "splitByConfig" => \A i \in Entries : bpc[i] = "idle")
         /\ (action # "openAppInBrowser" => opened = << >>)

C9_Witness ==
  /\ prog = "index" /\ proc = "exited"
  /\ Cardinality(TruthyOptions) >= 2
  /\ ~Truthy(Get(options, "authenticate")) /\ ~Truthy(Get(options, "create"))
  /\ action = "openAppInBrowser"

C9_NoFlagWitness == Started /\ TruthyOptions = {} /\ proc = "usage"

\* C10: round trip of the global config store.  After saveConfig of a config
\* {token, email}, with no other write in between, readConfig yields exactly
\* that token and email and no other field; and readConfig fails with the
\* missing-or-corrupt error when the file is absent or is not valid JSON.
C10_SaveReadRoundTrip ==
  /\ (saved # << >> /\ Keys(saved) = <<"token", "email">>) =>
       /\ readConfig(globalFile).ok
       /\ Keys(readConfig(globalFile).value) = <<"token", "email">>
       /\ Get(readConfig(globalFile).value, "token") = Get(saved, "token")
       /\ Get(readConfig(globalFile).value, "email") = Get(saved, "email")
       /\ (action = "createGitRepo" /\ pc = "maybeUsePackageName" => config = saved)
  /\ (globalFile = Absent \/ JSONParse(globalFile) = ParseError) =>
       /\ ~readConfig(globalFile).ok
       /\ readConfig(globalFile).message = MissingMsg
       /\ (action = "createGitRepo" /\ pc \notin {"none", "getConfig"} =>
             pc \in {"rejected", "caught"} /\ err = MissingMsg)

C10_Witness ==
  /\ runs = 2 /\ action = "createGitRepo" /\ pc = "maybeUsePackageName"
  /\ saved # << >> /\ config = saved /\ Keys(config) = <<"token", "email">>

AppBaseUrl ==
  IF prog = "legacy" THEN <<"https://rnplay.org/apps/">>
  ELSE IF rnplayEnv = Undefined THEN <<"https://", "rnplay.org/apps/">>
  ELSE <<"https://", rnplayEnv, ".", "rnplay.org/apps/">>

OpenRead == action = "openAppInBrowser" /\ pc \in {"openThen", "fulfilled"}
ErrorsPrinted == {m \in printed : m[1] = "error"}

\* C5: when the stored config read by open has no truthy urlToken, open
\* never calls opener and prints the run-create-first error; it makes no
\* network call and runs no shell command.
C5_OpenWithoutUrlToken ==
  (OpenRead /\ ~Truthy(Get(config, "urlToken"))) =>
     /\ opened = << >>
     /\ apiCalls = EmptyBag /\ execd = EmptyBag
     /\ (pc = "fulfilled" => <<"error", CreateFirstMsg>> \in printed)

C5_Witness ==
  /\ OpenRead /\ pc = "fulfilled" /\ proc = "exited"
  /\ ~Truthy(Get(config, "urlToken")) /\ <<"error", CreateFirstMsg>> \in printed

\* C6: when the stored config read by open has a truthy urlToken t, open
\* calls opener exactly once, with the app base url followed by t and
\* nothing else, and reports no error.
C6_OpenWithUrlToken ==
  (OpenRead /\ Truthy(Get(config, "urlToken"))) =>
     /\ (pc = "openThen" => opened = << >>)
     /\ (pc = "fulfilled" =>
           /\ opened = <<AppBaseUrl \o <<Get(config, "urlToken")>>>>
           /\ ErrorsPrinted = {} /\ handled = {} /\ uncaught = {} /\ err = "")

C6_Witness ==
  /\ OpenRead /\ pc = "fulfilled" /\ proc = "exited" /\ prog = "index"
  /\ rnplayEnv = "staging" /\ Get(config, "urlToken") = "u0" /\ Len(opened) = 1

ShellSucceeded == pc = "execThen" \/ err = ReferenceErrorMsg

\* C2: in a run of create of index.js with a valid global config and a
\* manifest-declared package name n, once the API call, the config write and
\* the shell command have succeeded: the remote API was called exactly once,
\* with name n; the urlToken it returned is the one in the local config; and
\* exactly one shell command was executed, git remote add rnplay <url>, whose
\* url contains that urlToken.
C2_CreateCallsOnceAndPersists ==
  (prog = "index" /\ action = "createGitRepo" /\ ShellSucceeded
     /\ Truthy(maybeUsePackageName(pkg))) =>
     /\ BagCardinality(apiCalls) = 1
     /\ \A r \in BagToSet(apiCalls) :
          /\ r.name = pkg.name
          /\ \E k \in 1..Len(r.body) : r.body[k] = <<"s", pkg.name>>
          /\ r.email = Get(config, "email") /\ r.token = Get(config, "token")
     /\ readLocalConfig(localFile).ok
     /\ Get(readLocalConfig(localFile).value, "urlToken") = val
     /\ BagCardinality(execd) = 1
     /\ \A c \in BagToSet(execd) :
          /\ c.op = "git remote add" /\ c.remoteName = "rnplay" /\ c.cd = << >>
          /\ \E k \in 1..Len(c.url) : c.url[k] = val

C2_Witness ==
  /\ prog = "index" /\ action = "createGitRepo" /\ pc = "execThen"
  /\ pkg.name = "demo" /\ val = "u2" /\ BagCardinality(execd) = 1

CopyCmds(i) ==
  {c \in BagToSet(execd) : c.op = "cp -r" /\ c.src = pkg.rnplay[i][2]
                           /\ c.dst = <<tmp, pkg.rnplay[i][1]>>}
InitCmds(i) ==
  {c \in BagToSet(execd) : c.op = "git init && git remote add"
                           /\ c.cd = <<tmp, pkg.rnplay[i][1]>>}
IssuedOnce(cmds) == Cardinality(cmds) = 1 /\ \A c \in cmds : CopiesIn(c, execd) = 1

\* C3: in split over N >= 1 entries, each entry causes exactly one cp -r of
\* its source to <tmp>/<project> and, when its steps succeed, exactly one
\* cd <tmp>/<project> && git init && git remote add command scoped to its own
\* target path; an entry's git command is issued only after that entry's
\* copy, config validation and remote API call have completed successfully.
C3_SplitOneCopyOneInitPerEntry ==
  action = "splitByConfig" =>
     /\ \A i \in Entries :
          /\ IssuedOnce(CopyCmds(i))
          /\ IF bpc[i] \in {"settled", "done"}
             THEN /\ IssuedOnce(InitCmds(i))
                  /\ berr[i] = ""
                  /\ checkConfig(bconfig[i]).ok
                  /\ \E r \in BagToSet(apiCalls) : r.name = pkg.rnplay[i][1]
                  /\ \A c \in InitCmds(i) : \E k \in 1..Len(c.url) : c.url[k] = bval[i]
             ELSE InitCmds(i) = {}
     /\ \A c \in BagToSet(execd) : \E i \in Entries : c \in CopyCmds(i) \cup InitCmds(i)
     /\ ((\A i \in Entries : bpc[i] = "done") =>
           BagCardinality(execd) = 2 * Len(pkg.rnplay))

C3_Witness ==
  /\ action = "splitByConfig" /\ Len(pkg.rnplay) >= 2
  /\ \A i \in Entries : bpc[i] = "done"
  /\ BagCardinality(execd) = 2 * Len(pkg.rnplay)

GlobalUnreadable == globalFile = Absent \/ JSONParse(globalFile) = ParseError
GlobalBad ==
  \/ GlobalUnreadable
  \/ ~Truthy(Get(JSONParse(globalFile), "email"))
  \/ ~Truthy(Get(JSONParse(globalFile), "token"))
ConfigErrorMsg == IF GlobalUnreadable THEN MissingMsg ELSE InvalidMsg

\* C1 (as stated): in index.js, every run of create, open or split with a
\* missing, unparsable or incomplete global config fails with the
\* missing/corrupt-config or invalid-config error, and no network call and no
\* shell command, the cp -r of split included, is issued in that run.
C1_Original ==
  (prog = "index" /\ GlobalBad
     /\ action \in {"createGitRepo", "openAppInBrowser", "splitByConfig"}) =>
     /\ apiCalls = EmptyBag
     /\ execd = EmptyBag
     /\ (proc \in {"exited", "crashed"} => err = ConfigErrorMsg /\ err \in handled)

\* C1 (amended): in index.js, with a missing, unparsable or incomplete global
\* config, create fails with the missing/corrupt-config or invalid-config
\* error at the top-level handler and issues no network call and no shell
\* command; every split entry whose copy succeeded fails with that error and
\* split issues no network call and no git command, its only shell commands
\* being the cp -r of the entries, which are issued before the config is read.
C1_BadConfigStopsCreateAndSplitBranches ==
  (prog = "index" /\ GlobalBad) =>
     /\ action = "createGitRepo" =>
          /\ apiCalls = EmptyBag /\ execd = EmptyBag
          /\ (pc # "getConfig" => pc \in {"rejected", "caught"} /\ err = ConfigErrorMsg)
          /\ (Terminated => proc = "exited" /\ handled = {ConfigErrorMsg})
     /\ action = "splitByConfig" =>
          /\ apiCalls = EmptyBag
          /\ \A c \in BagToSet(execd) : c.op = "cp -r"
          /\ \A i \in Entries :
               /\ bpc[i] \in {"cp", "getConfig", "rejected", "thrown"}
               /\ (bpc[i] \in {"rejected", "thrown"} =>
                     berr[i] \in {ShellErrorMsg, ConfigErrorMsg})

C1_Witness ==
  /\ prog = "index" /\ GlobalBad /\ action = "splitByConfig"
  /\ \E i \in Entries : bpc[i] = "thrown" /\ berr[i] = InvalidMsg
  /\ BagCardinality(execd) = 2

\* C4: in split over N >= 2 entries, a failure of entry K's directory copy
\* does not prevent the git command of another entry J from being issued:
\* when K's failure has ended the work, no entry J # K is left that has not
\* failed itself and has not issued its git command.
C4_CopyFailureLeavesOtherEntriesRunning ==
  \A k \in Entries : \A j \in Entries \ {k} :
    (bpc[k] = "thrown" /\ berr[k] = ShellErrorMsg /\ uncaught = {ShellErrorMsg}
       /\ Terminated) =>
         bpc[j] \in {"settled", "done", "rejected", "thrown"}

\* C7: for every selected action and every outcome of its stages, once the
\* action has been started the process eventually reaches process.exit
\* through the top-level finally, in that same run.
C7_EveryActionReachesExplicitExit ==
  \A n \in 1..MaxRuns :
    (runs = n /\ action # "none" /\ proc = "running") ~> (runs = n /\ proc = "exited")

RaisedErrors == {e \in {err} \cup {berr[i] : i \in Entries} : e # ""}

\* C8: every error raised by a stage of a workflow of index.js reaches the
\* top-level handler of cli.main, which prints the Ooops message with the
\* error text and the file-an-issue hint; none is swallowed or surfaces
\* anywhere else.
C8_EveryErrorReachesTopHandler ==
  prog = "index" =>
    /\ uncaught = {}
    /\ (Terminated => \A e \in RaisedErrors :
          /\ e \in handled
          /\ <<"error", OoopsMsg, e>> \in printed
          /\ <<"info", IssueHint>> \in printed)


(* ----------------------- create: stages and failure -------------------- *)
CreateRank(stage) ==
  CASE stage = "getConfig" -> 1
    [] stage = "maybeUsePackageName" -> 2
    [] stage = "resolveName" -> 3
    [] stage = "makeURLToken" -> 4
    [] stage = "saveLocalConfig" -> 5
    [] stage = "exec" -> 6
    [] stage = "execThen" -> 7
    [] stage = "report" -> 8
    [] stage = "fulfilled" -> 9
    [] OTHER -> 0

OkPrinted == {m \in printed : m[1] = "ok"}
InCreate == action = "createGitRepo"
CreateFailed == InCreate /\ pc \in {"rejected", "caught"}

\* the side effects of create happen in stage order, each at most once
CreateEffectsInOrder ==
  InCreate =>
    /\ BagCardinality(apiCalls) <= 1 /\ BagCardinality(execd) <= 1
    /\ (apiCalls # EmptyBag => checkConfig(config).ok /\ CreateRank(pc) \in {0, 5, 6, 7, 8, 9})
    /\ (execd # EmptyBag => apiCalls # EmptyBag /\ CreateRank(pc) \in {0, 7, 8, 9})
    /\ (OkPrinted # {} => execd # EmptyBag /\ pc = "fulfilled")
    /\ (err \in {MissingMsg, InvalidMsg, PromptErrorMsg} => apiCalls = EmptyBag)
    /\ (err \in {MissingMsg, InvalidMsg, PromptErrorMsg, RemoteApiErrorMsg, WriteErrorMsg} =>
          execd = EmptyBag)
    /\ (err # "" => OkPrinted = {} /\ pc \in {"rejected", "caught"})
    /\ (pc = "caught" =>
          /\ handled = {err} /\ err # ""
          /\ <<"error", OoopsMsg, err>> \in printed /\ <<"info", IssueHint>> \in printed)
    /\ (Terminated => proc = "exited" /\ pc \in {"caught", "fulfilled"})

\* a step of a run of create moves one stage forward or into the failed
\* state; once failed, no file is written and no call or command is issued
CreateStepIsFailFast ==
  (InCreate /\ action' = action /\ runs' = runs) =>
    /\ pc' # pc =>
         \/ pc' = "rejected" /\ CreateRank(pc) \in 1..7
         \/ pc = "rejected" /\ pc' = "caught"
         \/ CreateRank(pc) >= 1 /\ CreateRank(pc') = CreateRank(pc) + 1
    /\ CreateFailed =>
         /\ globalFile' = globalFile /\ localFile' = localFile
         /\ apiCalls' = apiCalls /\ execd' = execd /\ opened' = opened
         /\ OkPrinted' = OkPrinted /\ err' = err
         /\ pc' \in {"rejected", "caught"}

\* C11: fail-fast in create.  The stages run in the order validate config,
\* resolve name, call the remote API, persist the config, run the shell
\* command, report; when a stage fails no later stage has a side effect in
\* that run, no stage is attempted twice, and the run ends in the failed
\* state with the Ooops message carrying the error.
C11_CreateFailFast == [](CreateEffectsInOrder) /\ [][CreateStepIsFailFast]_vars

C11_Witness ==
  /\ InCreate /\ proc = "exited" /\ pc = "caught" /\ err = WriteErrorMsg
  /\ BagCardinality(apiCalls) = 1 /\ execd = EmptyBag


ShellExitedZero == InCreate /\ execd # EmptyBag /\ err # ShellErrorMsg

\* C12: in index.js, when every stage of create succeeds (valid config, name
\* resolved, a url_token returned, local config written, git remote add
\* exits zero), the workflow reaches the report stage, prints the success
\* messages naming the remote and its url, and settles as done: the
\* top-level error handler is not invoked and the failed state is not entered.
C12_CreateSuccessReports ==
  (prog = "index" /\ ShellExitedZero /\ Truthy(val)) =>
     /\ pc \in {"execThen", "report", "fulfilled"}
     /\ err = "" /\ handled = {}
     /\ (Terminated =>
           /\ proc = "exited" /\ pc = "fulfilled"
           /\ <<"ok", "Added remote with name ", "rnplay", " and url: ">>
                 \o formatCommand(val, config).url \in printed)


(* --------------------------- the stored urlToken ----------------------- *)
\* the file open reads: the local config of index.js, ~/.rnplay of rnplay-cli.js
StoredFile == IF prog = "legacy" THEN globalFile ELSE localFile
StoredUrlToken ==
  IF readConfig(StoredFile).ok THEN Get(readConfig(StoredFile).value, "urlToken")
  ELSE Undefined

ShellFailedAfterPersist == InCreate /\ err = ShellErrorMsg

\* C13: no rollback in create.  If the shell command fails after the
\* urlToken was persisted, the persisted urlToken stays exactly as written
\* (not removed, not restored), through the end of that run and the next
\* launch, and a run of open opens the url built from the stored urlToken.
C13_NoRollbackAfterShellFailure ==
  /\ [](ShellFailedAfterPersist => StoredUrlToken = val /\ execd # EmptyBag)
  /\ [][(ShellFailedAfterPersist \/ action \in {"none", "openAppInBrowser"}) =>
          StoredFile' = StoredFile]_vars
  /\ []((action = "openAppInBrowser" /\ pc = "fulfilled" /\ Truthy(StoredUrlToken)) =>
          opened = <<AppBaseUrl \o <<StoredUrlToken>>>>)

C13_Witness ==
  /\ ShellFailedAfterPersist /\ proc = "exited" /\ pc = "caught"
  /\ val = "u1" /\ StoredUrlToken = "u1"


(* ------------------------ split: completion signal --------------------- *)
LastEntry == Len(pkg.rnplay)
InSplit == action = "splitByConfig" /\ LastEntry >= 1
SplitResolved == InSplit /\ pc = "fulfilled"

\* C14: the completion signal of split depends only on the last entry in
\* key order: the promise is not resolved before the completion callback of
\* the last entry has run, no other entry resolves it, and it is resolved
\* when that callback has run, whatever the other entries have done.
C14_LastEntrySignalsCompletion ==
  InSplit =>
    /\ (pc = "fulfilled" => bpc[LastEntry] = "done")
    /\ resolved \subseteq {LastEntry}
    /\ (bpc[LastEntry] = "done" => pc = "fulfilled" /\ resolved = {LastEntry})


NoEntries == action = "splitByConfig" /\ pkg.exists /\ Len(pkg.rnplay) = 0

\* C15: when the split mapping has zero entries (the manifest without an
\* rnplay block included), splitByConfig issues no copy, API or shell call,
\* its promise is never resolved and never rejected, and the top-level
\* finally with process.exit is never reached through it.
C15_EmptySplitNeverSettles ==
  NoEntries =>
    /\ execd = EmptyBag /\ apiCalls = EmptyBag /\ opened = << >>
    /\ pc = "pending" /\ resolved = {} /\ err = "" /\ handled = {}
    /\ proc \in {"running", "fatal"}
    /\ (~pkg.hasRnplay => proc = "fatal" /\ <<"error", NoRnplayMsg>> \in printed)
    /\ (pkg.hasRnplay => proc = "running")

C15_Witness == NoEntries /\ pkg.hasRnplay /\ proc = "running" /\ pc = "pending"


(* ------------------------------ credentials ---------------------------- *)
GlobalConfigNow == readConfig(globalFile).value
HasCredentials(conf) == Truthy(Get(conf, "token")) /\ Truthy(Get(conf, "email"))
SameCredentials(conf) ==
  /\ readConfig(globalFile).ok
  /\ Get(conf, "token") = Get(GlobalConfigNow, "token")
  /\ Get(conf, "email") = Get(GlobalConfigNow, "email")

\* C16: credential invariant.  Whenever postCreateRepo is issued, in create
\* and in every branch of split, the config passed to it was read from the
\* global config store in that run and has a truthy token and a truthy
\* email; checkConfig passes the config on unchanged when both are truthy
\* and raises the invalid-config error otherwise.
C16_CredentialInvariant ==
  /\ \A r \in BagToSet(apiCalls) :
       /\ Truthy(r.token) /\ Truthy(r.email)
       /\ readConfig(globalFile).ok
       /\ r.token = Get(GlobalConfigNow, "token") /\ r.email = Get(GlobalConfigNow, "email")
  /\ InCreate =>
       /\ (pc = "maybeUsePackageName" => config = GlobalConfigNow)
       /\ (CreateRank(pc) >= 2 => HasCredentials(config) /\ SameCredentials(config))
       /\ (err = InvalidMsg => readConfig(globalFile).ok /\ ~HasCredentials(GlobalConfigNow)
                               /\ apiCalls = EmptyBag)
       /\ (err = MissingMsg => ~readConfig(globalFile).ok /\ apiCalls = EmptyBag)
  /\ action = "splitByConfig" =>
       \A i \in Entries :
         /\ (bpc[i] \in {"makeURLToken", "exec", "settled", "done"} =>
               bconfig[i] = GlobalConfigNow /\ HasCredentials(bconfig[i]))
         /\ (berr[i] = InvalidMsg => readConfig(globalFile).ok /\ ~HasCredentials(GlobalConfigNow))
         /\ (berr[i] = MissingMsg => ~readConfig(globalFile).ok)

C16_Witness ==
  /\ action = "splitByConfig" /\ BagCardinality(apiCalls) = 2
  /\ \A r \in BagToSet(apiCalls) : r.token = "tk" /\ r.email = "em"

C16_InvalidWitness == InCreate /\ err = InvalidMsg /\ proc = "exited"


\* C17: in each of the two programs the stored urlToken, once written, is
\* changed only by a later create, which replaces it with the newly returned
\* token; authenticate, open and split leave it unchanged.
C17_OnlyCreateChangesUrlToken ==
  [][(Truthy(StoredUrlToken) /\ StoredUrlToken' # StoredUrlToken) =>
       (action = "createGitRepo" /\ pc = "saveLocalConfig" /\ StoredUrlToken' = val)]_vars

\* C18: for a mapping with N >= 1 entries in which every copy, config read,
\* API call and shell launch succeeds, under fair scheduling of the branches
\* the split promise is eventually resolved and the process then exits.
C18_SplitEventuallyResolves ==
  \A n \in 1..MaxRuns :
    (runs = n /\ InSplit /\ proc = "running")
      ~> (runs = n /\ (\/ pc = "fulfilled" /\ proc = "exited"
                       \/ \E i \in Entries : berr[i] # ""))

\* C19: in split, an entry's completion callback runs only after that
\* entry's git init && git remote add command has finished, and the process
\* never ends while a shell command launched by a split entry is running.
C19_CallbackAfterShellFinished ==
  action = "splitByConfig" =>
    /\ \A i \in Entries : bpc[i] = "done" => shell[i] = "finished"
    /\ (Terminated => \A i \in Entries : shell[i] # "running")

====
